---- MODULE Spec2Model ----
(***************************************************************************)
(* testaustime-ls: the language server that relays debounced heartbeats    *)
(* to the Testaustime API.  The model follows testaustime-ls/src/main.rs   *)
(* (session state, send, the LanguageServer handlers), api.rs (the three   *)
(* HTTP operations), shared/src/lib.rs (the settings) and src/lib.rs (the *)
(* editor extension that hands the settings to the server).                *)
(*                                                                         *)
(* Every handler is an async task.  A handler step of the model runs from  *)
(* one await to the next; the clock may advance between any two steps.     *)
(* tokio::sync::Mutex is FIFO-fair: a released lock passes to the longest  *)
(* waiting task.  Option<T> is modelled as a sequence: <<>> is None and    *)
(* <<x>> is Some(x).                                                       *)
(***************************************************************************)
EXTENDS Integers, Sequences, FiniteSets, TLC

\* ------------------------------------------------------------------ bounds
\* Number of document notifications the editor sends in one run.
MaxEvents == 3
\* Number of document notifications handled concurrently.
MaxTasks == 2
\* Number of flush requests issued when shutdown is handled repeatedly.
MaxFlushes == 2

\* ------------------------------------------------------------ Option<T>
None == <<>>
Some(x) == <<x>>
IsSome(o) == o # <<>>
Unwrap(o) == o[1]

\* --------------------------------------------------------------- inputs
\* Instants (seconds since process start) at which the clock is observed.
Instants == {0, 5, 6, 30, 35}

\* Language identifiers carried by did_open.
Languages == {"go", "rust"}

\* JSON values of the initialization options, tagged by their JSON type.
JStr(s) == [t |-> "string", s |-> s, b |-> FALSE]
JBool(b) == [t |-> "bool", s |-> "", b |-> b]
JNum == [t |-> "number", s |-> "", b |-> FALSE]

\* The JSON objects the editor may pass as initialization_options.
\* <<>> is the empty object.
InitOptions ==
    { <<>>,
      [api_key |-> JStr("abc"), api_base_url |-> JStr("https://example.test")],
      [api_key |-> JStr("bad"), debug_logs |-> JNum],
      [api_key |-> JStr("abc"), debug_logs |-> JBool(TRUE)] }

\* Credentials the remote service accepts.
ValidKeys == {"abc"}

\* A workspace folder: its declared name and the path of its URI, given as
\* the pieces path.split('/') yields ("/home/u/proj/" is "", "home", "u",
\* "proj", "").
Folder(name, path) == [name |-> name, path |-> path]

\* The workspace-folder lists the editor may pass.
FolderLists ==
    { None,
      Some(<<>>),
      Some(<<Folder("myproj", <<"", "home", "u", "myproj">>)>>),
      Some(<<Folder("", <<"", "home", "u", "proj", "">>),
             Folder("other", <<"", "other">>)>>),
      Some(<<Folder("", <<"", "">>)>>) }

\* What hostname::get() may yield: a name, or nothing usable.
HostResults == {Some("devbox"), None}

\* ---------------------------------------------------- shared/src/lib.rs
SETTING_API_KEY == "api_key"
SETTING_API_BASE_URL == "api_base_url"
SETTING_DEBUG_LOGS == "debug_logs"

\* serde_json::Value::get on an object.
JsonGet(value, key) == IF key \in DOMAIN value THEN Some(value[key]) ELSE None

\* Value::as_str and Value::as_bool.
AsStr(v) == IF v.t = "string" THEN Some(v.s) ELSE None
AsBool(v) == IF v.t = "bool" THEN Some(v.b) ELSE None

AndThenStr(o) == IF IsSome(o) THEN AsStr(Unwrap(o)) ELSE None
AndThenBool(o) == IF IsSome(o) THEN AsBool(Unwrap(o)) ELSE None

DefaultSettings == [api_key |-> None, api_base_url |-> None, debug_logs |-> None]

from_json(value) ==
    [api_key |-> AndThenStr(JsonGet(value, SETTING_API_KEY)),
     api_base_url |-> AndThenStr(JsonGet(value, SETTING_API_BASE_URL)),
     debug_logs |-> AndThenBool(JsonGet(value, SETTING_DEBUG_LOGS))]

\* json!(s) of a String and json!(b) of a bool.
JsonOfString(s) == JStr(s)
JsonOfBool(b) == JBool(b)

\* A to_init_options that writes debug_logs only when it is true.
to_init_options_truthy(self) ==
    LET keys == {k \in {SETTING_API_KEY, SETTING_API_BASE_URL, SETTING_DEBUG_LOGS} :
                   CASE k = SETTING_API_KEY -> IsSome(self.api_key)
                     [] k = SETTING_API_BASE_URL -> IsSome(self.api_base_url)
                     [] k = SETTING_DEBUG_LOGS ->
                           IsSome(self.debug_logs) /\ Unwrap(self.debug_logs)}
    IN  [k \in keys |->
           CASE k = SETTING_API_KEY -> JsonOfString(Unwrap(self.api_key))
             [] k = SETTING_API_BASE_URL -> JsonOfString(Unwrap(self.api_base_url))
             [] k = SETTING_DEBUG_LOGS -> JsonOfBool(Unwrap(self.debug_logs))]

\* The JSON object with one entry for every field that is Some.
to_init_options(self) ==
    LET keys == {k \in {SETTING_API_KEY, SETTING_API_BASE_URL, SETTING_DEBUG_LOGS} :
                   CASE k = SETTING_API_KEY -> IsSome(self.api_key)
                     [] k = SETTING_API_BASE_URL -> IsSome(self.api_base_url)
                     [] k = SETTING_DEBUG_LOGS -> IsSome(self.debug_logs)}
    IN  [k \in keys |->
           CASE k = SETTING_API_KEY -> JsonOfString(Unwrap(self.api_key))
             [] k = SETTING_API_BASE_URL -> JsonOfString(Unwrap(self.api_base_url))
             [] k = SETTING_DEBUG_LOGS -> JsonOfBool(Unwrap(self.debug_logs))]

\* JSON values a settings key may carry in the editor's settings.
JsonValues == {JStr("abc"), JStr(""), JBool(TRUE), JBool(FALSE), JNum}

\* Keys of the editor's settings object: the three settings and one the
\* server does not know.
JsonKeys == {SETTING_API_KEY, SETTING_API_BASE_URL, SETTING_DEBUG_LOGS, "theme"}

\* The settings objects of the editor: any of the keys, with any value.
SettingsJson == UNION { [keys -> JsonValues] : keys \in SUBSET JsonKeys }

\* ------------------------------------------------------------- api.rs
DefaultBaseUrl == "https://api.testaustime.fi"

APIClientNew(api_key, base_url) ==
    [base_url |-> IF IsSome(base_url) THEN Unwrap(base_url) ELSE DefaultBaseUrl,
     api_key |-> api_key]

\* A constructor that mixes up its two leading String arguments.
ActivityUpdateSwapped(project_name, language, hostname) ==
    [project_name |-> language,
     language |-> project_name,
     editor_name |-> "Zed",
     hostname |-> hostname]

ActivityUpdateNew(project_name, language, hostname) ==
    [project_name |-> project_name,
     language |-> language,
     editor_name |-> "Zed",
     hostname |-> hostname]

\* Outcomes of GET /users/@me for a key: a decoded identity, a non-success
\* status, or a transport failure.
ValidateOutcomes(key) ==
    IF key \in ValidKeys THEN {"ok", "status", "transport"}
    ELSE {"status", "transport"}

\* Outcomes of a POST: success, a non-success status, or a transport failure.
PostOutcomes == {"ok", "status", "transport"}

\* .send().await?.error_for_status()?: what the caller gets for an outcome.
ApiResult(outcome) == IF outcome = "ok" THEN "Ok" ELSE "Err"

\* ------------------------------------------------------------ main.rs
INTERVAL == 30

\* A construction that puts last_heartbeat ahead of the clock.
InitialLead == 0 - 31

\* The offset of last_heartbeat from the construction time.
InitialLag == 31

Msg(type, text) == [type |-> type, text |-> text]

\* debug_log!: one INFO message when settings.debug_logs is Some(true).
DebugLog(cfg, text) ==
    IF IsSome(cfg.debug_logs) /\ Unwrap(cfg.debug_logs)
    THEN <<Msg("INFO", "DEBUG: " \o text)>>
    ELSE <<>>

\* tokio::sync::Mutex: the owner (None when free) and the FIFO of waiters.
FreeMutex == [owner |-> None, waiters |-> <<>>]

\* lock(): the caller owns a free mutex at once, else it queues.
Lock(m, id) ==
    IF m.owner = None
    THEN [m EXCEPT !.owner = Some(id)]
    ELSE [m EXCEPT !.waiters = Append(@, id)]

\* A guard that is never dropped.
UnlockNever(m) == m

\* Dropping the guard: the mutex passes to the longest waiting task.
Unlock(m) ==
    IF m.waiters = <<>>
    THEN [m EXCEPT !.owner = None]
    ELSE [owner |-> Some(Head(m.waiters)), waiters |-> Tail(m.waiters)]

\* A guard that does not exclude anyone.
HoldsAlways(m, id) == TRUE

Holds(m, id) == m.owner = Some(id)

\* Task identifiers: document notifications are numbered from 1.
ShutdownId == 0
InitializeId == 0 - 1

\* ---------------------------------------------------------------- state
VARIABLES
    clock,            \* Local::now(), seconds since the process started
    state,            \* tower-lsp's lifecycle state of the service
    settings,         \* TestaustimeLanguageServer.settings
    api_client,       \* the value guarded by the api_client mutex
    api_lock,         \* the api_client mutex
    last_heartbeat,   \* the value guarded by the last_heartbeat mutex
    hb_lock,          \* the last_heartbeat mutex
    workspace_name,   \* TestaustimeLanguageServer.workspace_name
    last_language,    \* TestaustimeLanguageServer.last_language
    init,             \* the initialize handler
    tasks,            \* the running send() calls, in order of arrival
    down,             \* the shutdown handler
    nevents,          \* document notifications received so far
    heartbeats,       \* POST /activity/update requests issued so far
    lastSend,         \* the latest such request
    flushes,          \* POST /activity/flush requests issued so far
    logged,           \* messages the latest handler step sent to the editor
    last_explicit,    \* language of the latest handled did_open
    handled,          \* the latest debounce decision of send
    lastLog,          \* event time of the latest "API client not initialized"
    scn,              \* progress of the run through Scenario
    ext               \* the editor extension building the options

vars == <<clock, state, settings, api_client, api_lock,
          last_heartbeat, hb_lock, workspace_name, last_language, init,
          tasks, down, nevents, heartbeats, lastSend, flushes, logged,
          last_explicit, handled, lastLog, scn, ext>>

\* -------------------------------------------------- helpers of main.rs
\* Event values built by the three document handlers.
did_open_event(language_id) == [is_write |-> FALSE, language |-> Some(language_id)]
did_change_event == [is_write |-> FALSE, language |-> None]
did_save_event == [is_write |-> TRUE, language |-> None]

\* The document notifications the editor may send.
Notifications ==
    { [method |-> "did_open", event |-> did_open_event(l)] : l \in Languages }
    \cup { [method |-> "did_change", event |-> did_change_event],
           [method |-> "did_save", event |-> did_save_event] }

\* Variants of the debounce short-circuit: one that also drops saves, and
\* one that also drops the event that arrives exactly INTERVAL later.
SkipsWrites(now, last, is_write) == now - last < INTERVAL
SkipsAtInterval(now, last, is_write) == now - last <= INTERVAL /\ ~is_write

\* A send without the short-circuit.
SkipsNothing(now, last, is_write) == FALSE

\* The debounce short-circuit of send.
Skips(now, last, is_write) == now - last < INTERVAL /\ ~is_write

\* A send that forgets to store the time.
KeepHeartbeatTime(last, now) == last

\* *last_heartbeat = now: the time send stores once the event is not skipped.
StoreHeartbeatTime(last, now) == now

\* A send that logs the same text for both missing preconditions.
MissingPreconditionOneText(client, name) ==
    IF client = None \/ name = None THEN Some("API client not initialized")
    ELSE None

\* The error send logs instead of sending: the client is looked up first,
\* the workspace name second.
MissingPrecondition(client, name) ==
    IF client = None THEN Some("API client not initialized")
    ELSE IF name = None THEN Some("Workspace name not set")
    ELSE None

\* An initialize that stores the client before it knows the credential.
ClientUnvalidated(result, client, current) == client

\* The client initialize leaves in api_client when validation returns.
ClientAfterValidate(result, client, current) ==
    IF result = "Ok" THEN client ELSE current

\* .filter(|s| !s.is_empty()).last() over the pieces of a path.
LastNonEmpty(pieces) ==
    LET kept == SelectSeq(pieces, LAMBDA piece : piece # "")
    IN  IF kept = <<>> THEN None ELSE Some(kept[Len(kept)])

\* params.workspace_folders.as_ref().and_then(|folders| folders.first()).
FirstFolder(folders) ==
    IF folders = None \/ Unwrap(folders) = <<>> THEN None
    ELSE Some(Unwrap(folders)[1])

\* The workspace name initialize derives from params.workspace_folders.
ResolveWorkspaceName(folders) ==
    IF folders = None \/ Unwrap(folders) = <<>>
    THEN None
    ELSE LET folder == Unwrap(folders)[1]
         IN  IF folder.name # "" THEN Some(folder.name)
             ELSE LastNonEmpty(folder.path)

\* hostname::get().ok().and_then(into_string).unwrap_or("unknown").
Hostname(h) == IF IsSome(h) THEN Unwrap(h) ELSE "unknown"

\* The language send reports, and the value it leaves in last_language.
ResolveLanguage(event, last) ==
    IF IsSome(event.language) THEN Unwrap(event.language) ELSE last

\* An initialize that fails when the credential does.
InitializeResultStrict(outcome) ==
    IF outcome = "Err" THEN "Err" ELSE "Ok"

\* What initialize returns, whatever became of the credential.
InitializeResult(outcome) == "Ok"

\* A shutdown that passes the error of the flush on.
ShutdownResultStrict(outcome) ==
    IF outcome = "Err" THEN "Err" ELSE "Ok"

\* What shutdown returns, whatever became of the flush.
ShutdownResult(outcome) == "Ok"

\* tower-lsp: the service is Initialized once initialize has returned Ok.
AfterInitialize(result) ==
    IF result = "Ok" THEN "Initialized" ELSE "Uninitialized"

\* ------------------------------------------------------------- scenario
\* The run of the concrete scenario: the document events in the order and
\* at the instants they are handled, then shutdown.
Obs(op, language, at) == [op |-> op, language |-> language, at |-> at]

Scenario ==
    << Obs("did_open", Some("go"), Some(0)),
       Obs("did_change", None, Some(5)),
       Obs("did_save", None, Some(6)),
       Obs("shutdown", None, None) >>

ScnOff == 0 - 1

\* scn is 0 before initialize, 1 once initialize has stored a validated
\* client and the workspace name "myproj", 1 + k after the first k steps of
\* Scenario, and ScnOff once the run has left the scenario.
ScnInit(client, name) ==
    IF IsSome(client) /\ name = Some("myproj") THEN 1 ELSE ScnOff

ScnStep(s, o) ==
    IF s >= 1 /\ s <= Len(Scenario) /\ Scenario[s] = o THEN s + 1 ELSE ScnOff

\* ------------------------------------------------------------------ Init
IdleInit == [pc |-> "idle", settings |-> DefaultSettings, client |-> None,
             first |-> None, result |-> "none", outcome |-> "none"]
IdleDown == [pc |-> "idle", result |-> "none", outcome |-> "none"]

\* The extension before the editor asks it for the options.
IdleExt == [pc |-> "idle", json |-> <<>>, settings |-> DefaultSettings,
            options |-> <<>>, parsed |-> DefaultSettings]

Init ==
    /\ ext = IdleExt
    /\ clock = 0
    /\ state = "Uninitialized"
    /\ settings = DefaultSettings
    /\ api_client = None
    /\ api_lock = FreeMutex
    /\ last_heartbeat = clock - InitialLag
    /\ hb_lock = FreeMutex
    /\ workspace_name = None
    /\ last_language = "Unknown"
    /\ init = IdleInit
    /\ tasks = <<>>
    /\ down = IdleDown
    /\ nevents = 0
    /\ heartbeats = 0
    /\ lastSend = None
    /\ flushes = 0
    /\ logged = <<>>
    /\ last_explicit = "Unknown"
    /\ handled = None
    /\ lastLog = None
    /\ scn = 0

\* --------------------------------------------------------------- actions
\* Time passes.
Tick ==
    /\ \E t \in Instants : t > clock /\ clock' = t
    /\ UNCHANGED <<state, settings, api_client, api_lock,
                   last_heartbeat, hb_lock, workspace_name, last_language,
                   init, tasks, down, nevents, heartbeats, lastSend, flushes,
                   logged, last_explicit, handled, scn, lastLog, ext>>

\* initialize, up to the validation request or, without a credential (or
\* without options), to its return.
Initialize ==
    /\ state = "Uninitialized"
    /\ init.pc = "idle"
    /\ \E options \in {None} \cup {Some(o) : o \in InitOptions},
          folders \in FolderLists :
         IF options = None
         THEN /\ init' = [init EXCEPT !.pc = "done", !.outcome = "no options",
                                      !.first = FirstFolder(folders),
                                      !.result = InitializeResult("no options")]
              /\ state' = AfterInitialize(InitializeResult("no options"))
              /\ scn' = ScnInit(api_client, workspace_name)
              /\ logged' = <<>>
              /\ UNCHANGED <<workspace_name, settings>>
         ELSE LET parsed == from_json(Unwrap(options))
              IN  /\ workspace_name' = ResolveWorkspaceName(folders)
                  /\ IF IsSome(parsed.api_key)
                     THEN /\ init' = [init EXCEPT
                                 !.pc = "validate",
                                 !.first = FirstFolder(folders),
                                 !.settings = parsed,
                                 !.client = Some(APIClientNew(Unwrap(parsed.api_key),
                                                              parsed.api_base_url))]
                          /\ state' = "Initializing"
                          /\ logged' = DebugLog(settings, "Workspace folders")
                          /\ UNCHANGED <<settings, scn>>
                     ELSE /\ init' = [init EXCEPT
                                 !.pc = "done", !.settings = parsed,
                                 !.first = FirstFolder(folders),
                                 !.outcome = "no key",
                                 !.result = InitializeResult("no key")]
                          /\ logged' = DebugLog(settings, "Workspace folders")
                                       \o <<Msg("WARNING", "No API key provided")>>
                          /\ settings' = parsed
                          /\ state' = AfterInitialize(InitializeResult("no key"))
                          /\ scn' = ScnInit(api_client, workspace_name')
    /\ UNCHANGED <<clock, api_client, api_lock, last_heartbeat,
                   hb_lock, last_language, tasks, down, nevents, heartbeats,
                   lastSend, flushes, last_explicit, handled, lastLog, ext>>

\* validate_api_key returns; initialize stores the client on success, swaps
\* the settings and returns.
ValidateReturn ==
    /\ init.pc = "validate"
    /\ \E outcome \in ValidateOutcomes(Unwrap(init.settings.api_key)) :
         /\ IF ApiResult(outcome) = "Ok"
            THEN /\ logged' = <<Msg("INFO", "Testaustime authenticated as")>>
                 /\ Holds(Lock(api_lock, InitializeId), InitializeId)
                 /\ api_lock' = Unlock(Lock(api_lock, InitializeId))
            ELSE /\ logged' = <<Msg("ERROR", "Invalid API key")>>
                 /\ UNCHANGED api_lock
         /\ api_client' = ClientAfterValidate(ApiResult(outcome), init.client,
                                              api_client)
         /\ settings' = init.settings
         /\ init' = [init EXCEPT
                        !.pc = "done", !.outcome = ApiResult(outcome),
                        !.result = InitializeResult(ApiResult(outcome))]
         /\ state' = AfterInitialize(InitializeResult(ApiResult(outcome)))
    /\ scn' = ScnInit(api_client', workspace_name)
    /\ UNCHANGED <<clock, last_heartbeat, hb_lock, workspace_name,
                   last_language, tasks, down, nevents, heartbeats, lastSend,
                   flushes, last_explicit, handled, lastLog, ext>>

\* The position in tasks of the send() call that owns the last_heartbeat
\* mutex and stands at pc; the empty set when there is none.
Owner(pc) ==
    {i \in 1..Len(tasks) : Holds(hb_lock, tasks[i].id) /\ tasks[i].pc = pc}

Without(i) == SelectSeq(tasks, LAMBDA t : t.id # tasks[i].id)

\* did_open, did_change, did_save: build the event and call send, which
\* asks for the last_heartbeat mutex.
Notify ==
    /\ state = "Initialized"
    /\ nevents < MaxEvents
    /\ Len(tasks) < MaxTasks
    /\ \E n \in Notifications :
         /\ nevents' = nevents + 1
         /\ tasks' = Append(tasks, [id |-> nevents + 1, method |-> n.method,
                                    event |-> n.event, pc |-> "lock_hb"])
         /\ hb_lock' = Lock(hb_lock, nevents + 1)
    /\ UNCHANGED <<clock, state, settings, api_client, api_lock,
                   last_heartbeat, workspace_name, last_language, init, down,
                   heartbeats, lastSend, flushes, logged, last_explicit,
                   handled, scn, lastLog, ext>>

\* send, holding last_heartbeat: read the clock, return if the event is
\* debounced, else store the time and ask for the api_client mutex.
Debounce ==
    \E i \in Owner("lock_hb") :
      LET t == tasks[i]
          now == clock
      IN  /\ IF Skips(now, last_heartbeat, t.event.is_write)
             THEN /\ tasks' = Without(i)
                  /\ hb_lock' = Unlock(hb_lock)
                  /\ UNCHANGED <<last_heartbeat, api_lock>>
             ELSE /\ last_heartbeat' = StoreHeartbeatTime(last_heartbeat, now)
                  /\ api_lock' = Lock(api_lock, t.id)
                  /\ tasks' = [tasks EXCEPT ![i].pc = "lock_api"]
                  /\ UNCHANGED hb_lock
          /\ last_explicit' = IF IsSome(t.event.language)
                              THEN Unwrap(t.event.language) ELSE last_explicit
          /\ handled' = Some([id |-> t.id, method |-> t.method,
                               is_write |-> t.event.is_write,
                               now |-> now, last |-> last_heartbeat,
                               skipped |-> Skips(now, last_heartbeat,
                                                 t.event.is_write)])
          /\ scn' = ScnStep(scn, Obs(t.method, t.event.language, Some(now)))
          /\ logged' = <<>>
          /\ UNCHANGED <<clock, state, settings, api_client,
                         workspace_name, last_language, init, down, nevents,
                         heartbeats, lastSend, flushes, lastLog, ext>>

\* send, holding both mutexes: without a client or a workspace name log and
\* return, else resolve the language and issue POST /activity/update.
Heartbeat ==
    \E i \in Owner("lock_api") :
      LET t == tasks[i]
      IN  /\ Holds(api_lock, t.id)
          /\ IF IsSome(MissingPrecondition(api_client, workspace_name))
             THEN /\ logged' = <<Msg("ERROR",
                         Unwrap(MissingPrecondition(api_client, workspace_name)))>>
                  /\ tasks' = Without(i)
                  /\ api_lock' = Unlock(api_lock)
                  /\ hb_lock' = Unlock(hb_lock)
                  /\ lastLog' = IF api_client = None
                                THEN Some(last_heartbeat) ELSE lastLog
                  /\ UNCHANGED <<last_language, heartbeats, lastSend>>
             ELSE \E host \in HostResults :
                  LET language == ResolveLanguage(t.event, last_language)
                      activity == ActivityUpdateNew(Unwrap(workspace_name),
                                      language, Hostname(host))
                  IN  /\ last_language' = language
                      /\ logged' = DebugLog(settings, "Heartbeat data")
                      /\ heartbeats' = heartbeats + 1
                      /\ lastSend' = Some([at |-> last_heartbeat,
                                           is_write |-> t.event.is_write,
                                           client |-> Unwrap(api_client),
                                           data |-> activity])
                      /\ tasks' = [tasks EXCEPT ![i].pc = "net"]
                      /\ UNCHANGED <<api_lock, hb_lock, lastLog>>
          /\ UNCHANGED <<clock, state, settings, api_client,
                         last_heartbeat, workspace_name, init, down, nevents,
                         flushes, last_explicit, handled, scn, ext>>

\* A send that goes back to build and issue the request again when the
\* request failed.
HeartbeatReturnRetry ==
    \E i \in Owner("net"), outcome \in PostOutcomes :
      /\ IF ApiResult(outcome) = "Ok"
         THEN /\ logged' = <<Msg("LOG", "Heartbeat sent successfully")>>
              /\ tasks' = Without(i)
              /\ api_lock' = Unlock(api_lock)
              /\ hb_lock' = Unlock(hb_lock)
         ELSE /\ logged' = <<Msg("ERROR", "Heartbeat failed")>>
              /\ tasks' = [tasks EXCEPT ![i].pc = "lock_api"]
              /\ UNCHANGED <<api_lock, hb_lock>>
      /\ UNCHANGED <<clock, state, settings, api_client,
                     last_heartbeat, workspace_name, last_language, init, down,
                     nevents, heartbeats, lastSend, flushes, last_explicit,
                     handled, scn, lastLog, ext>>

\* The heartbeat request returns; send logs the outcome and returns,
\* dropping both guards.
HeartbeatReturn ==
    \E i \in Owner("net"), outcome \in PostOutcomes :
      /\ logged' = IF ApiResult(outcome) = "Ok"
                   THEN <<Msg("LOG", "Heartbeat sent successfully")>>
                   ELSE <<Msg("ERROR", "Heartbeat failed")>>
      /\ tasks' = Without(i)
      /\ api_lock' = Unlock(api_lock)
      /\ hb_lock' = Unlock(hb_lock)
      /\ UNCHANGED <<clock, state, settings, api_client,
                     last_heartbeat, workspace_name, last_language, init, down,
                     nevents, heartbeats, lastSend, flushes, last_explicit,
                     handled, scn, lastLog, ext>>

\* The shutdown request arrives (tower-lsp accepts it once, when the
\* service is Initialized) and asks for the api_client mutex.
Shutdown ==
    /\ state = "Initialized"
    /\ down.pc = "idle"
    /\ state' = "ShutDown"
    /\ down' = [down EXCEPT !.pc = "lock_api"]
    /\ api_lock' = Lock(api_lock, ShutdownId)
    /\ scn' = ScnStep(scn, Obs("shutdown", None, None))
    /\ UNCHANGED <<clock, settings, api_client, last_heartbeat,
                   hb_lock, workspace_name, last_language, init, tasks, nevents,
                   heartbeats, lastSend, flushes, logged,
                   last_explicit, handled, lastLog, ext>>

\* A shutdown whose client remembers that it has flushed and issues no
\* second request.
FlushOnce ==
    /\ down.pc = "lock_api"
    /\ Holds(api_lock, ShutdownId)
    /\ IF IsSome(api_client) /\ flushes = 0
       THEN /\ flushes' = flushes + 1
            /\ down' = [down EXCEPT !.pc = "net"]
            /\ logged' = <<>>
            /\ UNCHANGED api_lock
       ELSE /\ logged' = <<>>
            /\ down' = [down EXCEPT !.pc = "done", !.outcome = "Ok",
                                    !.result = ShutdownResult("Ok")]
            /\ api_lock' = Unlock(api_lock)
            /\ UNCHANGED flushes
    /\ UNCHANGED <<clock, state, settings, api_client,
                   last_heartbeat, hb_lock, workspace_name, last_language, init,
                   tasks, nevents, heartbeats, lastSend, last_explicit,
                   handled, scn, lastLog, ext>>

\* shutdown, holding api_client: issue POST /activity/flush, or log that
\* there is no client and return.
Flush ==
    /\ down.pc = "lock_api"
    /\ Holds(api_lock, ShutdownId)
    /\ IF IsSome(api_client)
       THEN /\ flushes' = flushes + 1
            /\ down' = [down EXCEPT !.pc = "net"]
            /\ logged' = <<>>
            /\ UNCHANGED api_lock
       ELSE /\ logged' = <<Msg("ERROR", "API client not initialized during shutdown")>>
            /\ down' = [down EXCEPT !.pc = "done", !.outcome = "no client",
                                    !.result = ShutdownResult("no client")]
            /\ api_lock' = Unlock(api_lock)
            /\ UNCHANGED flushes
    /\ UNCHANGED <<clock, state, settings, api_client,
                   last_heartbeat, hb_lock, workspace_name, last_language, init,
                   tasks, nevents, heartbeats, lastSend, last_explicit,
                   handled, scn, lastLog, ext>>

\* The flush request returns; shutdown discards the outcome and returns.
FlushReturn ==
    /\ down.pc = "net"
    /\ \E outcome \in PostOutcomes :
         down' = [down EXCEPT !.pc = "done", !.outcome = ApiResult(outcome),
                              !.result = ShutdownResult(ApiResult(outcome))]
    /\ api_lock' = Unlock(api_lock)
    /\ logged' = <<>>
    /\ UNCHANGED <<clock, state, settings, api_client,
                   last_heartbeat, hb_lock, workspace_name, last_language, init,
                   tasks, nevents, heartbeats, lastSend, flushes, last_explicit, handled,
                   scn, lastLog, ext>>

\* The shutdown handler is entered once more after it has returned (a
\* caller that flushes repeatedly): it asks for the api_client mutex again.
ShutdownAgain ==
    /\ state = "ShutDown"
    /\ down.pc = "done"
    /\ flushes < MaxFlushes
    /\ down' = [IdleDown EXCEPT !.pc = "lock_api"]
    /\ api_lock' = Lock(api_lock, ShutdownId)
    /\ scn' = ScnStep(scn, Obs("shutdown", None, None))
    /\ UNCHANGED <<clock, state, settings, api_client, last_heartbeat,
                   hb_lock, workspace_name, last_language, init, tasks, nevents,
                   heartbeats, lastSend, flushes, logged,
                   last_explicit, handled, lastLog, ext>>

Next ==
    \/ Tick
    \/ Initialize
    \/ ValidateReturn
    \/ Notify
    \/ Debounce
    \/ Heartbeat
    \/ HeartbeatReturn
    \/ Shutdown
    \/ Flush
    \/ FlushReturn

Spec == Init /\ [][Next]_vars

\* The same service under a caller that may flush more than once.
NextFlush ==
    \/ Next
    \/ ShutdownAgain

SpecFlush == Init /\ [][NextFlush]_vars

\* ------------------------------------------------------- the hand-off
\* The editor asks the extension for the initialization options: the
\* extension reads the settings object of the worktree.
ReadSettings ==
    /\ ext.pc = "idle"
    /\ state = "Uninitialized" /\ init.pc = "idle"
    /\ \E json \in SettingsJson :
         ext' = [ext EXCEPT !.pc = "read", !.json = json]
    /\ UNCHANGED <<clock, state, settings, api_client, api_lock,
                   last_heartbeat, hb_lock, workspace_name, last_language,
                   init, tasks, down, nevents, heartbeats, lastSend, flushes,
                   logged, last_explicit, handled, lastLog, scn>>

\* language_server_initialization_options: parse the settings object, then
\* build the options from the parsed settings.
ExtFromJson ==
    /\ ext.pc = "read"
    /\ ext' = [ext EXCEPT !.pc = "settings", !.settings = from_json(ext.json)]
    /\ UNCHANGED <<clock, state, settings, api_client, api_lock,
                   last_heartbeat, hb_lock, workspace_name, last_language,
                   init, tasks, down, nevents, heartbeats, lastSend, flushes,
                   logged, last_explicit, handled, lastLog, scn>>

ExtToInitOptions ==
    /\ ext.pc = "settings"
    /\ ext' = [ext EXCEPT !.pc = "options",
                          !.options = to_init_options(ext.settings)]
    /\ UNCHANGED <<clock, state, settings, api_client, api_lock,
                   last_heartbeat, hb_lock, workspace_name, last_language,
                   init, tasks, down, nevents, heartbeats, lastSend, flushes,
                   logged, last_explicit, handled, lastLog, scn>>

\* initialize parses the options it was handed.
ServerFromJson ==
    /\ ext.pc = "options"
    /\ ext' = [ext EXCEPT !.pc = "parsed", !.parsed = from_json(ext.options)]
    /\ UNCHANGED <<clock, state, settings, api_client, api_lock,
                   last_heartbeat, hb_lock, workspace_name, last_language,
                   init, tasks, down, nevents, heartbeats, lastSend, flushes,
                   logged, last_explicit, handled, lastLog, scn>>

NextSettings ==
    \/ ReadSettings
    \/ ExtFromJson
    \/ ExtToInitOptions
    \/ ServerFromJson

SpecSettings == Init /\ [][NextSettings]_vars

\* The service on a runtime that keeps polling every task that can go on,
\* talking to a network on which every request eventually returns.
Fairness ==
    /\ WF_vars(ValidateReturn)
    /\ WF_vars(Debounce)
    /\ WF_vars(Heartbeat)
    /\ WF_vars(HeartbeatReturn)
    /\ WF_vars(Flush)
    /\ WF_vars(FlushReturn)

SpecLive == Spec /\ Fairness

\* ----------------------------------------------------------- properties
\* Steps of send, read off a pair of states.
Ids(ts) == {ts[j].id : j \in 1..Len(ts)}
PcOf(ts, id) == {ts[j].pc : j \in {k \in 1..Len(ts) : ts[k].id = id}}

\* The step is the debounce decision of some send.
Decides == handled' # handled

\* The step is the second step of the send that holds both mutexes.
Proceeds(i) ==
    /\ i \in Owner("lock_api")
    /\ Holds(api_lock, tasks[i].id)
    /\ PcOf(tasks', tasks[i].id) # {"lock_api"}

\* The session has a client and a workspace name.
Ready == IsSome(api_client) /\ IsSome(workspace_name)

\* C1: with a client and a workspace name, a send that is not a save goes
\* out no sooner than 30 seconds after the send before it, a non-write
\* event handled inside that window sends nothing and changes nothing, and
\* every stored time is the time of exactly one heartbeat request.
C1_DebounceWindow ==
    [][ /\ (heartbeats' # heartbeats) =>
              /\ heartbeats' = heartbeats + 1
              /\ Unwrap(lastSend').at = last_heartbeat
              /\ IsSome(lastSend) =>
                    \/ Unwrap(lastSend').is_write
                    \/ Unwrap(lastSend').at - Unwrap(lastSend).at >= INTERVAL
        /\ (Decides /\ Ready /\ IsSome(lastSend)) =>
              LET h == Unwrap(handled')
              IN  (~h.is_write /\ clock - Unwrap(lastSend).at < INTERVAL) =>
                     /\ h.id \notin Ids(tasks')
                     /\ heartbeats' = heartbeats
                     /\ last_heartbeat' = last_heartbeat
        /\ (Ready' /\ heartbeats' > 0
              /\ \A j \in 1..Len(tasks') : tasks'[j].pc # "lock_api") =>
              Unwrap(lastSend').at = last_heartbeat'
      ]_vars

\* A did_change handled inside the window of the one heartbeat sent so far
\* was dropped.
C1_Witness ==
    /\ Ready /\ heartbeats = 1 /\ tasks = <<>>
    /\ IsSome(handled)
    /\ Unwrap(handled).method = "did_change"
    /\ Unwrap(handled).skipped
    /\ Unwrap(handled).now - Unwrap(lastSend).at \in 1..(INTERVAL - 1)

\* C2: a did_save passes the debounce check whatever the elapsed time and
\* stores the current time; with a client and a workspace name it issues a
\* heartbeat request; a non-write event handled less than 30 seconds after
\* the save is dropped.
C2_SaveAlwaysSends ==
    [][ /\ Decides =>
              LET h == Unwrap(handled')
              IN  /\ h.is_write =>
                        /\ last_heartbeat' = clock
                        /\ PcOf(tasks', h.id) = {"lock_api"}
                  /\ ( /\ ~h.is_write
                       /\ IsSome(handled) /\ Unwrap(handled).is_write
                       /\ clock - Unwrap(handled).now < INTERVAL ) =>
                        /\ h.id \notin Ids(tasks')
                        /\ last_heartbeat' = last_heartbeat
                        /\ heartbeats' = heartbeats
        /\ \A i \in 1..Len(tasks) :
              (Proceeds(i) /\ tasks[i].event.is_write /\ Ready) =>
                 /\ heartbeats' = heartbeats + 1
                 /\ Unwrap(lastSend').is_write
      ]_vars

\* A save handled inside the window went out, and the did_change after it
\* was dropped.
C2_Witness ==
    /\ heartbeats = 2 /\ tasks = <<>>
    /\ Unwrap(lastSend).is_write
    /\ Unwrap(lastSend).at \in 1..(INTERVAL - 1)
    /\ Unwrap(handled).method = "did_change"
    /\ Unwrap(handled).skipped
    /\ Unwrap(handled).last = Unwrap(lastSend).at

\* C3: at most one send is past the debounce comparison at any instant, at
\* most one heartbeat request is in flight, and no send evaluates the
\* comparison while another is between its comparison and its return.
C3_OneSendInFlight ==
    [][ /\ Cardinality({j \in 1..Len(tasks') : tasks'[j].pc # "lock_hb"}) <= 1
        /\ Cardinality({j \in 1..Len(tasks') : tasks'[j].pc = "net"}) <= 1
        /\ (\E j \in 1..Len(tasks) : tasks[j].pc # "lock_hb") => ~Decides
      ]_vars

\* Two notifications are handled at once: one waits for the mutex while the
\* heartbeat request of the other is in flight.
C3_Witness ==
    \E i, j \in 1..Len(tasks) :
       /\ tasks[i].pc = "net"
       /\ tasks[j].pc = "lock_hb"
       /\ hb_lock.waiters = <<tasks[j].id>>

\* C4: api_client holds a client only after validate_api_key succeeded in
\* initialize; without that no heartbeat request is ever issued, and a send
\* that passes the debounce check logs "API client not initialized" and
\* returns.
C4_ClientOnlyAfterValidation ==
    [][ /\ IsSome(api_client') => init'.outcome = "Ok"
        /\ init'.outcome # "Ok" =>
              /\ api_client' = None
              /\ heartbeats' = 0
              /\ \A j \in 1..Len(tasks') : tasks'[j].pc # "net"
        /\ \A i \in 1..Len(tasks) :
              (Proceeds(i) /\ api_client = None) =>
                 /\ logged' = <<Msg("ERROR", "API client not initialized")>>
                 /\ heartbeats' = heartbeats
                 /\ tasks[i].id \notin Ids(tasks')
      ]_vars

\* The service rejected the credential, and a send that passed the debounce
\* check has logged the error and returned.
C4_Witness ==
    /\ init.outcome = "Err"
    /\ IsSome(handled) /\ ~Unwrap(handled).skipped
    /\ tasks = <<>>
    /\ logged = <<Msg("ERROR", "API client not initialized")>>
    /\ heartbeats = 0

\* C5: initialize returns Ok and the service becomes Initialized also when
\* validation fails or no credential is given; the failure is logged and the
\* client stays absent.
C5_BadCredentialStillReady ==
    [][ init'.pc = "done" =>
          /\ init'.result = "Ok"
          /\ state' \in {"Initialized", "ShutDown"}
          /\ init'.outcome \in {"Err", "no key"} =>
                api_client' = None
          /\ init.pc # "done" =>
                /\ init'.outcome = "Err" =>
                      logged' = <<Msg("ERROR", "Invalid API key")>>
                /\ init'.outcome = "no key" =>
                      logged' = <<Msg("WARNING", "No API key provided")>>
      ]_vars

\* initialize has returned after a failed validation, and the service
\* accepts notifications.
C5_Witness ==
    /\ init.pc = "done"
    /\ init.outcome = "Err"
    /\ init.result = "Ok"
    /\ state = "Initialized"
    /\ api_client = None

\* C6: shutdown returns Ok whatever the flush did; with a client it issues
\* exactly one flush request, without one it issues none and logs that the
\* client is missing.
C6_ShutdownAlwaysOk ==
    [][ /\ flushes' <= 1
        /\ down'.pc = "done" =>
              /\ down'.result = "Ok"
              /\ flushes' = IF IsSome(api_client') THEN 1 ELSE 0
        /\ (down.pc = "lock_api" /\ down'.pc # "lock_api") =>
              IF IsSome(api_client)
              THEN flushes' = flushes + 1 /\ down'.pc = "net"
              ELSE /\ flushes' = flushes
                   /\ down'.pc = "done"
                   /\ logged' = <<Msg("ERROR",
                                    "API client not initialized during shutdown")>>
      ]_vars

\* shutdown has returned Ok after a flush request that failed.
C6_Witness ==
    /\ down.pc = "done"
    /\ down.outcome = "Err"
    /\ down.result = "Ok"
    /\ flushes = 1

\* C7: in the concrete scenario (valid credential, workspace "myproj", then
\* did_open "go" handled at 0, did_change at 5, did_save at 6, shutdown) the
\* did_open sends {myproj, go, Zed, hostname}, the did_change sends nothing,
\* the did_save sends again with language "go", and shutdown issues exactly
\* one flush request.
ScenarioPayload(d) ==
    /\ d.project_name = "myproj"
    /\ d.language = "go"
    /\ d.editor_name = "Zed"
    /\ d.hostname \in {Hostname(h) : h \in HostResults}

C7_ConcreteScenario ==
    /\ (scn = 2 /\ tasks = <<>>) =>
          /\ heartbeats = 1
          /\ ScenarioPayload(Unwrap(lastSend).data)
          /\ Unwrap(lastSend).at = 0
    /\ (scn = 3 /\ tasks = <<>>) =>
          /\ heartbeats = 1
          /\ Unwrap(lastSend).at = 0
    /\ (scn = 4 /\ tasks = <<>>) =>
          /\ heartbeats = 2
          /\ ScenarioPayload(Unwrap(lastSend).data)
          /\ Unwrap(lastSend).is_write
          /\ Unwrap(lastSend).at = 6
    /\ (scn = 5 /\ tasks = <<>> /\ down.pc = "done") =>
          /\ heartbeats = 2
          /\ ScenarioPayload(Unwrap(lastSend).data)
          /\ flushes = 1

\* The whole scenario has run: shutdown has returned after the three
\* document events.
C7_Witness ==
    /\ scn = 5
    /\ tasks = <<>>
    /\ down.pc = "done"
    /\ nevents = 3

\* C8: a did_open carrying language L leaves L in last_language, and a
\* later heartbeat for an event without a language reports the language of
\* the latest did_open handled before it.
C8_LanguageResolution ==
    \A j \in 1..Len(tasks) :
       tasks[j].pc = "net" =>
          /\ Unwrap(lastSend).data.language = last_language
          /\ IsSome(tasks[j].event.language) =>
                last_language = Unwrap(tasks[j].event.language)
          /\ tasks[j].event.language = None =>
                Unwrap(lastSend).data.language = last_explicit

\* C9 as stated: whenever the workspace name is unset, a send that passes
\* the debounce check logs "Workspace name not set", issues no request, and
\* leaves the time it stored in last_heartbeat.
C9_MissingWorkspaceOriginal ==
    [][ \A i \in 1..Len(tasks) :
          (Proceeds(i) /\ workspace_name = None) =>
             /\ logged' = <<Msg("ERROR", "Workspace name not set")>>
             /\ heartbeats' = heartbeats
             /\ tasks[i].id \notin Ids(tasks')
             /\ last_heartbeat' = Unwrap(handled).now
      ]_vars

\* C9 as amended: with a client present and the workspace name unset, a send
\* that passes the debounce check stores the current time, then logs
\* "Workspace name not set", issues no request and leaves the stored time;
\* without a client the text logged is "API client not initialized".
C9_MissingWorkspace ==
    [][ /\ (Decides /\ workspace_name = None
              /\ Unwrap(handled').id \in Ids(tasks')) =>
              last_heartbeat' = clock
        /\ \A i \in 1..Len(tasks) :
              (Proceeds(i) /\ workspace_name = None) =>
                 /\ logged' = <<Msg("ERROR",
                                  IF IsSome(api_client)
                                  THEN "Workspace name not set"
                                  ELSE "API client not initialized")>>
                 /\ heartbeats' = heartbeats
                 /\ tasks[i].id \notin Ids(tasks')
                 /\ last_heartbeat' = Unwrap(handled).now
      ]_vars

\* With a client and no workspace name, a send passed the debounce check,
\* logged the error and returned with the time stored and nothing sent.
C9_Witness ==
    /\ IsSome(api_client)
    /\ workspace_name = None
    /\ IsSome(handled) /\ ~Unwrap(handled).skipped
    /\ tasks = <<>>
    /\ logged = <<Msg("ERROR", "Workspace name not set")>>
    /\ last_heartbeat = Unwrap(handled).now
    /\ last_heartbeat > Unwrap(handled).last
    /\ heartbeats = 0

\* C10: a non-write event handled exactly 30 seconds after the stored time
\* is not skipped (the time is stored and the send goes on); one handled
\* less than 30 seconds after it is skipped and stores nothing.
C10_Boundary ==
    [][ Decides =>
          LET h == Unwrap(handled')
              elapsed == clock - last_heartbeat
          IN  ~h.is_write =>
                 /\ elapsed = INTERVAL =>
                       /\ last_heartbeat' = clock
                       /\ PcOf(tasks', h.id) = {"lock_api"}
                 /\ elapsed < INTERVAL =>
                       /\ last_heartbeat' = last_heartbeat
                       /\ h.id \notin Ids(tasks')
      ]_vars

\* A did_change handled exactly 30 seconds after the previous send has been
\* sent.
C10_Witness ==
    /\ IsSome(handled)
    /\ Unwrap(handled).method = "did_change"
    /\ Unwrap(handled).now - Unwrap(handled).last = INTERVAL
    /\ heartbeats = 2
    /\ Unwrap(lastSend).at = Unwrap(handled).now
    /\ ~Unwrap(lastSend).is_write

\* The session state a flush must leave alone.
Session == <<last_heartbeat, last_language, workspace_name, api_client, settings>>

\* C11: however often the flush is called, a step of the flush (the handler
\* taking the client, issuing the request, or the request returning) leaves
\* last_heartbeat, last_language, workspace_name, api_client and settings
\* unchanged, and every call made with a client issues exactly one request
\* of its own, whatever the earlier calls did.
C11_FlushIdempotence ==
    [][ /\ (down' # down \/ flushes' # flushes) => Session' = Session
        /\ flushes' # flushes =>
              /\ flushes' = flushes + 1
              /\ down.pc = "lock_api" /\ down'.pc = "net"
        /\ (down.pc = "lock_api" /\ down' # down /\ IsSome(api_client)) =>
              /\ flushes' = flushes + 1
              /\ down'.pc = "net"
      ]_vars

\* The flush has been called twice in a session that had sent a heartbeat:
\* the second request is in flight after the first one returned.
C11_Witness ==
    /\ flushes = 2
    /\ down.pc = "net"
    /\ heartbeats > 0
    /\ last_language \in Languages
    /\ last_heartbeat >= 0

\* C12: once initialize has handled a request whose workspace-folder list
\* is not empty, with or without initialization options, workspace_name is
\* the declared name of the first folder, or the last non-empty segment of
\* its path when the declared name is empty.
C12_WorkspaceName ==
    (init.pc = "done" /\ IsSome(init.first)) =>
       LET folder == Unwrap(init.first)
       IN  workspace_name = IF folder.name # "" THEN Some(folder.name)
                            ELSE LastNonEmpty(folder.path)

\* C13: in every reachable state last_language is the language of the
\* latest handled did_open, or "Unknown" when none has been handled.  Read
\* in the states where the claim is least demanding: the session has a
\* client and a workspace name and no send is under way.
C13_LastLanguageInvariant ==
    (Ready /\ tasks = <<>>) => last_language = last_explicit

\* C14: last_heartbeat never decreases: under every interleaving of the
\* handlers no step assigns it a value smaller than the one it holds, and
\* the only value ever assigned is the current time.
C14_MonotoneSendTime ==
    [][ /\ last_heartbeat' >= last_heartbeat
        /\ last_heartbeat' # last_heartbeat => last_heartbeat' = clock
      ]_vars

\* last_heartbeat has been assigned for the second time, with a later time
\* than the first, while another notification waits for the mutex.
C14_Witness ==
    /\ IsSome(handled) /\ ~Unwrap(handled).skipped
    /\ Unwrap(handled).last >= 0
    /\ last_heartbeat = Unwrap(handled).now
    /\ last_heartbeat > Unwrap(handled).last
    /\ hb_lock.waiters # <<>>

\* C15: shutdown does not wait for a heartbeat request that is in flight:
\* there is no state in which shutdown has been called and stands before its
\* flush, kept from it by a send whose heartbeat request has not returned.
C15_ShutdownDoesNotWait ==
    ~ ( /\ down.pc = "lock_api"
        /\ ~Holds(api_lock, ShutdownId)
        /\ \E j \in 1..Len(tasks) :
              tasks[j].pc = "net" /\ Holds(api_lock, tasks[j].id) )

\* C16: a non-write event handled less than 30 seconds after the stored
\* time returns at once: the send is over, no request is issued, nothing is
\* logged, no mutex stays held, and last_heartbeat, last_language,
\* workspace_name, api_client and settings are unchanged, also when the
\* event is a did_open that carries a language.
C16_DebounceFrame ==
    [][ \A i \in Owner("lock_hb") :
          ( /\ Decides
            /\ ~tasks[i].event.is_write
            /\ clock - last_heartbeat < INTERVAL ) =>
             /\ Unwrap(handled').id = tasks[i].id
             /\ tasks' = Without(i)
             /\ hb_lock' = Unlock(hb_lock)
             /\ api_lock' = api_lock
             /\ heartbeats' = heartbeats
             /\ logged' = <<>>
             /\ Session' = Session
      ]_vars

\* A did_open carrying "rust" was handled inside the window of a heartbeat
\* that reported "go", and was dropped: last_language is still "go".
C16_Witness ==
    /\ IsSome(handled)
    /\ Unwrap(handled).method = "did_open"
    /\ Unwrap(handled).skipped
    /\ Unwrap(handled).now - Unwrap(handled).last \in 1..(INTERVAL - 1)
    /\ last_explicit = "rust"
    /\ last_language = "go"
    /\ last_heartbeat = Unwrap(handled).last
    /\ tasks = <<>>

\* C17: a document event causes at most one heartbeat request; when the
\* request returns, failed or not, the send logs the outcome and is over
\* (it is not issued again), the service stays as it was, and the state
\* left behind differs between failure and success in the logged message
\* only: last_heartbeat, last_language and the rest of the session are
\* untouched either way.
C17_FireAndForget ==
    [][ /\ heartbeats' + Cardinality({j \in 1..Len(tasks') :
                              tasks'[j].pc \in {"lock_hb", "lock_api"}})
              <= nevents'
        /\ \A i \in Owner("net") :
              PcOf(tasks', tasks[i].id) # {"net"} =>
                 /\ logged' \in { <<Msg("LOG", "Heartbeat sent successfully")>>,
                                  <<Msg("ERROR", "Heartbeat failed")>> }
                 /\ tasks' = Without(i)
                 /\ hb_lock' = Unlock(hb_lock)
                 /\ api_lock' = Unlock(api_lock)
                 /\ heartbeats' = heartbeats
                 /\ Session' = Session
                 /\ state' = state
      ]_vars

\* The heartbeat request of a did_open has failed: the send has logged the
\* failure and returned, leaving the stored time and language of the
\* attempt.
C17_Witness ==
    /\ logged = <<Msg("ERROR", "Heartbeat failed")>>
    /\ tasks = <<>>
    /\ heartbeats = 1
    /\ nevents = 1
    /\ state = "Initialized"
    /\ last_heartbeat = Unwrap(lastSend).at
    /\ last_language = Unwrap(lastSend).data.language
    /\ last_language \in Languages

\* C18: without a client, a send that passes the debounce check has stored
\* the time of its event in last_heartbeat before it logs "API client not
\* initialized"; hence a non-write event logs that error only when its time
\* is at least 30 seconds after the event time of the previous such log,
\* and one handled sooner is dropped without a log and without a retry.
C18_NoClientCadence ==
    [][ /\ \A i \in 1..Len(tasks) :
              (Proceeds(i) /\ api_client = None) =>
                 /\ logged' = <<Msg("ERROR", "API client not initialized")>>
                 /\ last_heartbeat = Unwrap(handled).now
                 /\ last_heartbeat' = last_heartbeat
                 /\ tasks[i].id \notin Ids(tasks')
                 /\ lastLog' = Some(last_heartbeat)
                 /\ (~tasks[i].event.is_write /\ IsSome(lastLog)) =>
                       last_heartbeat - Unwrap(lastLog) >= INTERVAL
        /\ ( /\ Decides /\ api_client = None /\ IsSome(lastLog)
             /\ ~Unwrap(handled').is_write
             /\ clock - Unwrap(lastLog) < INTERVAL ) =>
              /\ Unwrap(handled').id \notin Ids(tasks')
              /\ logged' = <<>>
              /\ last_heartbeat' = last_heartbeat
        /\ lastLog' # lastLog =>
              logged' = <<Msg("ERROR", "API client not initialized")>>
      ]_vars

\* In a session without a client the error has been logged for an event at
\* time 0 and, three events into the session, again for a did_change that
\* was handled 30 seconds or more later.
C18_Witness ==
    /\ api_client = None
    /\ nevents = 3
    /\ tasks = <<>>
    /\ logged = <<Msg("ERROR", "API client not initialized")>>
    /\ IsSome(handled)
    /\ Unwrap(handled).method = "did_change"
    /\ Unwrap(handled).last = 0
    /\ lastLog = Some(Unwrap(handled).now)
    /\ Unwrap(lastLog) >= INTERVAL

\* C19: the server never deadlocks: when every request to the network
\* eventually returns, every send that was started ends, an initialize that
\* awaits the validation returns, and a shutdown that was called returns,
\* under every interleaving of the handlers.
Quiet ==
    /\ tasks = <<>>
    /\ init.pc # "validate"
    /\ down.pc \notin {"lock_api", "net"}

C19_NoDeadlock == <>[]Quiet

\* Three handlers are under way and wait in line: one send holds both
\* mutexes with its request in flight, another send waits for
\* last_heartbeat, and shutdown waits for api_client.
C19_Witness ==
    /\ \E j \in 1..Len(tasks) :
          /\ tasks[j].pc = "net"
          /\ Holds(hb_lock, tasks[j].id)
          /\ Holds(api_lock, tasks[j].id)
    /\ hb_lock.waiters # <<>>
    /\ api_lock.waiters = <<ShutdownId>>
    /\ down.pc = "lock_api"

\* The field of a settings value that belongs to a key, and the JSON type
\* from_json accepts for it.
FieldOf(s, key) ==
    CASE key = SETTING_API_KEY -> s.api_key
      [] key = SETTING_API_BASE_URL -> s.api_base_url
      [] key = SETTING_DEBUG_LOGS -> s.debug_logs

TypeOf(key) == IF key = SETTING_DEBUG_LOGS THEN "bool" ELSE "string"

\* C20: settings survive the hand-off: parsing the options built from a
\* settings value gives that value back, for every combination of set and
\* unset fields; and from_json always yields a settings value, in which the
\* field of a key that is missing or carries a value of the wrong type is
\* unset, the field of a well-typed key is set to its value, and keys the
\* server does not know change nothing.
C20_SettingsRoundTrip ==
    /\ ext.pc = "parsed" => ext.parsed = ext.settings
    /\ ext.pc \in {"settings", "options", "parsed"} =>
          \A key \in {SETTING_API_KEY, SETTING_API_BASE_URL, SETTING_DEBUG_LOGS} :
             LET field == FieldOf(ext.settings, key)
             IN  IF key \in DOMAIN ext.json /\ ext.json[key].t = TypeOf(key)
                 THEN field = Some(IF TypeOf(key) = "bool" THEN ext.json[key].b
                                   ELSE ext.json[key].s)
                 ELSE field = None

\* The options of a settings value with debug_logs set to false, an empty
\* api_key and no api_base_url (its key carried a number) have been parsed
\* by the server; the settings object also had a key the server ignores.
C20_Witness ==
    /\ ext.pc = "parsed"
    /\ ext.settings = [api_key |-> Some(""), api_base_url |-> None,
                       debug_logs |-> Some(FALSE)]
    /\ ext.parsed = ext.settings
    /\ DOMAIN ext.json = JsonKeys
    /\ ext.json[SETTING_API_BASE_URL] = JNum

====
